---- MODULE Spec2Model ----
(***************************************************************************)
(* Hybrid retrieval chat loop (scripts/hybrid_chat.py) with its Redis      *)
(* embedding cache (scripts/embeddings_cache.py).                          *)
(*                                                                         *)
(* One action per step of main(), pinecone_query(), embed_text(),          *)
(* fetch_graph_context(), build_prompt() and call_chat().  The external    *)
(* collaborators (stdin, Redis, the embedding/chat provider, the Pinecone  *)
(* index, Neo4j) answer nondeterministically.                              *)
(*                                                                         *)
(* Time: the entries of the store age while input() waits for the user.    *)
(* The sleeps of one call (at most 61.5 s) are recorded with their exact   *)
(* length but are not charged to the 48 hour time to live of an entry.     *)
(*                                                                         *)
(* Locals of main() left over from the previous turn are never read before *)
(* they are assigned again; reading a line drops them.                     *)
(***************************************************************************)
EXTENDS Integers, Sequences, FiniteSets, TLC

VARIABLES
    pc,                 \* position of the single thread of control
    conversation_count, \* main(): turn counter
    query,              \* main(): stripped input line of the current turn
    attempt,            \* embed_text()/call_chat(): retry loop variable
    embedding,          \* embed_text(): vector returned by the provider
    vec,                \* pinecone_query(): result of embed_text()
    matches,            \* main(): result of pinecone_query()
    nid_i,              \* fetch_graph_context(): position in node_ids
    graph_facts,        \* fetch_graph_context(): facts / main(): its result
    prompt,             \* main(): context built by build_prompt()
    answer,             \* main(): result of call_chat()
    USE_NEO4J,          \* module flag
    neo4j_driver,       \* module handle ("driver" or None)
    conn,               \* contents of the Redis store: key -> entry
    stdout,             \* lines printed since the last prompt (tags); the
                        \* progress lines of the retry loops and of a cache
                        \* hit are left out
    log,                \* sleeps and provider/cache calls of the running
                        \* embed_text()/call_chat() invocation
    turn,               \* external calls made since the last prompt
    last_embed,         \* summary of the last embed_text() call whose
                        \* result went into an index query
    harness,            \* replay harness of SpecPair (idle under Spec)
    CACHE_TTL_HOURS,    \* embeddings_cache.py: int(os.getenv(..., 48))
    graph_failed        \* the graph store has signalled a failure in this
                        \* session (at startup or in a turn)

vars == <<pc, conversation_count, query, attempt, embedding, vec, matches,
          nid_i, graph_facts, prompt, answer, USE_NEO4J, neo4j_driver, conn,
          stdout, log, turn, last_embed, harness, CACHE_TTL_HOURS,
          graph_failed>>

None == "None"

(***************************************************************************)
(* Bounds of the model.                                                    *)
(***************************************************************************)
MaxTurns == 2
MaxMatches == 15
MaxFacts == 35

(***************************************************************************)
(* Program constants.                                                      *)
(***************************************************************************)
TOP_K == 5
retry_count == 3
PACING_MS == 500
BACKOFF_SECONDS == 10
ttl_hours == 48
DIMENSIONS == 1536
MAX_VEC_SNIPPETS == 10
MAX_GRAPH_SNIPPETS == 20
SECONDS_PER_HOUR == 3600
CACHE_TTL_DEFAULT == 48

\* Seconds as milliseconds (the unit of a sleep in the log).
Seconds(n) == n * 1000

(***************************************************************************)
(* Text: a string is a sequence of one-character strings.                  *)
(***************************************************************************)
Whitespace == {" "}

RECURSIVE lstrip(_)
lstrip(s) == IF s # <<>> /\ Head(s) \in Whitespace THEN lstrip(Tail(s)) ELSE s

RECURSIVE rstrip(_)
rstrip(s) ==
    IF s # <<>> /\ s[Len(s)] \in Whitespace
    THEN rstrip(SubSeq(s, 1, Len(s) - 1))
    ELSE s

strip(s) == rstrip(lstrip(s))

lower_char(c) ==
    CASE c = "E" -> "e"
      [] c = "X" -> "x"
      [] c = "I" -> "i"
      [] c = "T" -> "t"
      [] c = "Q" -> "q"
      [] c = "U" -> "u"
      [] c = "A" -> "a"
      [] c = "B" -> "b"
      [] OTHER -> c

\* A comparison that tells the letter cases apart.
lower_not(s) == s

lower(s) == [i \in 1..Len(s) |-> lower_char(s[i])]

ReservedWords == {<<"e", "x", "i", "t">>, <<"q", "u", "i", "t">>, <<"q">>}

\* Lines the user may type.
InputLines ==
    { <<>>, <<" ">>,
      <<"q">>, <<"Q">>, <<"e", "x", "i", "t">>, <<" ", "E", "x", "i", "t">>,
      <<"q", "u", "i", "t">>,
      <<"a">>, <<" ", "a", " ">>, <<"b">> }

\* How long input() may wait for the user, in seconds.
IdleTimes == {0, ttl_hours * SECONDS_PER_HOUR}

(***************************************************************************)
(* embeddings_cache.py                                                     *)
(***************************************************************************)
\* hashlib.sha256(text.encode('utf-8')).hexdigest(): collision-free digest.
get_hash(text) == <<"sha256", text>>

\* An answer namespace without a prefix of its own.
answer_key_bare(text) == get_hash(text)

\* key = f"answer:{get_hash(query)}"
answer_key(text) == <<"answer:", get_hash(text)>>

\* The texts that reach embed_text(): the lines main() takes as queries.
Texts ==
    {strip(l) : l \in {x \in InputLines :
                          /\ strip(x) # <<>>
                          /\ lower(strip(x)) \notin ReservedWords}}

CacheKeys == {get_hash(t) : t \in Texts} \cup {answer_key(t) : t \in Texts}

\* Stored bytes are a tuple; <<>> stands for "no such key" (conn.get -> None).
NoData == <<>>

NoEntry == [data |-> NoData, ttl |-> 0]

\* An embedding: its length and its contents.  NoVec stands for None.
NoVec == [dim |-> 0, val |-> None]

\* conn.get(key): the stored bytes, or None.
redis_get(store, key) == store[key].data

\* conn.setex(key, seconds, data)
redis_setex(store, key, seconds, data) ==
    [store EXCEPT ![key] = [data |-> data, ttl |-> seconds]]

\* Redis drops an entry once its time to live has run out.
Elapse(store, seconds) ==
    [k \in DOMAIN store |->
        IF store[k].data # NoData /\ store[k].ttl > seconds
        THEN [store[k] EXCEPT !.ttl = @ - seconds]
        ELSE NoEntry]

\* pickle.dumps / pickle.loads of an embedding or an answer.
pickle_dumps(obj) == <<"pickle", obj>>
pickle_loads(data) == data[2]

\* A lookup under the key of the answer namespace.
get_cached_embeddings_answer_key(store, text) ==
    LET data == redis_get(store, answer_key(text))
    IN IF data # NoData THEN pickle_loads(data) ELSE NoVec

\* get_cached_embeddings(text), given that conn.get did not raise.
get_cached_embeddings(store, text) ==
    LET h == get_hash(text)
        data == redis_get(store, h)
    IN IF data # NoData THEN pickle_loads(data) ELSE NoVec

\* save_embeddings(text, embeddings), given that conn.setex did not raise.
save_embeddings(store, text, embeddings) ==
    LET h == get_hash(text)
        data == pickle_dumps(embeddings)
    IN redis_setex(store, h, ttl_hours * SECONDS_PER_HOUR, data)

\* get_cached_answer(query), given that conn.get did not raise.
get_cached_answer(store, q) ==
    LET key == answer_key(q)
        data == redis_get(store, key)
    IN IF data # NoData THEN pickle_loads(data) ELSE None

\* save_cached_answer(query, answer, ttl_hours), given that conn.setex did
\* not raise; its callers leave ttl_hours at its default, CACHE_TTL_HOURS.
save_cached_answer(store, q, a, ttl) ==
    LET key == answer_key(q)
        data == pickle_dumps(a)
    IN redis_setex(store, key, ttl * SECONDS_PER_HOUR, data)

(***************************************************************************)
(* The external collaborators' possible answers.                           *)
(***************************************************************************)
\* client.embeddings.create(..., dimensions=1536): a vector, a rate-limit
\* error (its text holds "429") or any other error.
Vectors == {[dim |-> DIMENSIONS, val |-> "v1"]}

ProviderErrors == {"429", "error"}

EmbedOutcomes == {[err |-> "", vec |-> v] : v \in Vectors}
                 \cup {[err |-> e, vec |-> NoVec] : e \in ProviderErrors}

ChatContents == {"content"}

ChatOutcomes == {[err |-> "", content |-> c] : c \in ChatContents}
                \cup {[err |-> e, content |-> None] : e \in ProviderErrors}

\* Redis answers a command or raises redis.ConnectionError.
CacheOutcomes == {"ok", "ConnectionError"}

\* index.query(...): res["matches"], at most top_k of them, or an error.
\* A match carries its metadata, or None where the vector was stored bare.
M1 == [id |-> "n1", score |-> 91, metadata |-> "dict"]
M2 == [id |-> "n2", score |-> 80, metadata |-> "dict"]
M3 == [id |-> "n3", score |-> 70, metadata |-> None]

MatchLists == {<<>>, <<M1>>, <<M1, M2>>, <<M3>>}

IndexOutcomes(top_k) ==
    {[err |-> "", matches |-> ms] : ms \in {l \in MatchLists : Len(l) <= top_k}}
    \cup {[err |-> "error", matches |-> <<>>]}

\* session.run(q, nid=nid): the records of one node, or an error.
GraphRecords(nid) ==
    { <<>>,
      <<[rel |-> "NEAR", id |-> "c1", name |-> "city"]>> }

\* The errors of the graph store.  The code handles every Exception of a
\* query alike; the one that stands for them is neo4j's ServiceUnavailable.
GraphErrors == {"ServiceUnavailable"}

\* recs: the records delivered, all of them or those before the error err.
GraphOutcomes(nid) ==
    {[err |-> e, recs |-> r] : e \in {""} \cup GraphErrors,
                               r \in GraphRecords(nid)}

\* neo4j_driver.session(): a session, or an error of the driver.
SessionOutcomes == {"ok"} \cup GraphErrors

\* input(): a line after some waiting, or EOFError.
InputOutcomes ==
    {[err |-> "", line |-> l, idle |-> d] : l \in InputLines, d \in IdleTimes}
    \cup {[err |-> "EOFError", line |-> <<>>, idle |-> 0]}

\* print(answer): done, or an OSError of the terminal.
PrintOutcomes == {"ok", "OSError"}

(***************************************************************************)
(* Replay harness (SpecPair): a turn is run up to the built prompt, then   *)
(* run again from the same state with the graph collaborator disabled,     *)
(* stdin, Redis, the provider and the index answering as they did.  Under  *)
(* Spec the harness is off.                                                *)
(***************************************************************************)
HarnessOff ==
    [phase |-> "off", memo |-> <<>>, mpos |-> 1, snap |-> <<>>, ref |-> <<>>]

\* The answers a collaborator may give to the call `kind`.
\* A run of the harness ends where the next line or the first chat
\* completion is asked for.
Draw(kind, Choices) ==
    CASE harness.phase = "first" /\ kind \in {"input", "chat"} -> {}
      [] harness.phase = "replay" /\ harness.mpos > 1
                                 /\ kind \in {"input", "chat"} -> {}
      [] /\ harness.phase = "replay"
         /\ harness.mpos <= Len(harness.memo)
         /\ harness.memo[harness.mpos].kind = kind ->
            {harness.memo[harness.mpos].out}
      [] OTHER -> Choices

\* What a second run starts from.
Snapshot ==
    [conn |-> conn, conversation_count |-> conversation_count,
     last_embed |-> last_embed]

\* The harness notes the answer `out` given to the call `kind`.
Observe(kind, out) ==
    harness' =
        CASE harness.phase = "off" -> harness
          [] harness.phase = "rest" ->
                IF kind = "input"
                THEN [phase |-> "first",
                      memo |-> <<[kind |-> kind, out |-> out]>>,
                      mpos |-> 1, snap |-> Snapshot, ref |-> <<>>]
                ELSE harness
          [] harness.phase = "first" ->
                [harness EXCEPT !.memo = Append(@, [kind |-> kind, out |-> out])]
          [] harness.phase = "replay" ->
                [harness EXCEPT !.mpos = @ + 1]

(***************************************************************************)
(* Bookkeeping shared by the actions.                                      *)
(***************************************************************************)
NoPrompt ==
    [query |-> <<>>, vec |-> <<>>, graph |-> <<>>, placeholder |-> FALSE,
     sections |-> <<>>]

\* clean: Redis answered every command of the call, and the entry of the
\* text has not run out since.
NoEmbed ==
    [text |-> <<>>, vec |-> NoVec, ncalls |-> 0, nok |-> 0, clean |-> FALSE]

NoTurn == [called |-> {}, get_raised |-> FALSE, status |-> "Idle"]

Event(ev, ms, out) == [ev |-> ev, ms |-> ms, out |-> out]

Count(l, ev) == Cardinality({i \in 1..Len(l) : l[i].ev = ev})

\* The provider calls of l that returned a result.
CountOk(l) == Cardinality({i \in 1..Len(l) : l[i].ev = "call" /\ l[i].out = ""})

Last(l) == l[Len(l)]

\* Time passes: Redis ages its entries; the summary of the last
\* embed_text() is dropped with the entry of its text.
Passes(seconds) ==
    /\ conn' = Elapse(conn, seconds)
    /\ last_embed' =
         IF /\ last_embed.clean
            /\ Elapse(conn, seconds)[get_hash(last_embed.text)].data # NoData
         THEN last_embed
         ELSE NoEmbed

\* time.sleep(seconds), its length noted in milliseconds
Sleep(ms) == log' = Append(log, Event("sleep", ms, ""))

(***************************************************************************)
(* Module initialisation, hybrid_chat.py lines 26-76: the Pinecone index   *)
(* is connected (else the process has exited); Neo4j is connected, or the  *)
(* connection failed and the flag is cleared.                              *)
(***************************************************************************)
InitProgram ==
    /\ pc = "prompt"
    /\ conversation_count = 0
    /\ query = <<>>
    /\ attempt = 0
    /\ embedding = NoVec
    /\ vec = NoVec
    /\ matches = <<>>
    /\ nid_i = 1
    /\ graph_facts = <<>>
    /\ prompt = NoPrompt
    /\ answer = None
    /\ conn = [k \in CacheKeys |-> NoEntry]
    /\ stdout = <<>>
    /\ log = <<>>
    /\ turn = NoTurn
    /\ last_embed = NoEmbed
    /\ CACHE_TTL_HOURS = CACHE_TTL_DEFAULT

Init ==
    /\ InitProgram
    /\ \/ USE_NEO4J = TRUE /\ neo4j_driver = "driver" /\ graph_failed = FALSE
       \/ USE_NEO4J = FALSE /\ neo4j_driver = None /\ graph_failed = TRUE
    /\ harness = HarnessOff

(***************************************************************************)
(* main(): reading a line, lines 248-260.                                  *)
(***************************************************************************)
\* What every read of a line resets: the records kept per prompt.
NewPrompt ==
    /\ attempt' = 0
    /\ embedding' = NoVec
    /\ vec' = NoVec
    /\ matches' = <<>>
    /\ nid_i' = 1
    /\ graph_facts' = <<>>
    /\ prompt' = NoPrompt
    /\ answer' = None
    /\ log' = <<>>
    /\ UNCHANGED <<USE_NEO4J, neo4j_driver>>

\* query = input(...).strip(); if not query: continue
main_input_empty ==
    /\ pc = "prompt"
    /\ \E in \in Draw("input", InputOutcomes) :
         /\ in.err = ""
         /\ strip(in.line) = <<>>
         /\ Observe("input", in)
         /\ Passes(in.idle)
         /\ query' = strip(in.line)
    /\ pc' = "prompt"
    /\ stdout' = <<>>
    /\ turn' = NoTurn
    /\ NewPrompt
    /\ UNCHANGED <<conversation_count, CACHE_TTL_HOURS, graph_failed>>

\* if query.lower() in ("exit", "quit", "q"): print farewell; break
main_input_exit ==
    /\ pc = "prompt"
    /\ \E in \in Draw("input", InputOutcomes) :
         /\ in.err = ""
         /\ strip(in.line) # <<>>
         /\ lower(strip(in.line)) \in ReservedWords
         /\ Observe("input", in)
         /\ Passes(in.idle)
         /\ query' = strip(in.line)
    /\ pc' = "done"
    /\ stdout' = <<"farewell">>
    /\ turn' = NoTurn
    /\ NewPrompt
    /\ UNCHANGED <<conversation_count, CACHE_TTL_HOURS, graph_failed>>

\* conversation_count += 1; matches = pinecone_query(query, top_k=TOP_K)
main_input_query ==
    /\ pc = "prompt"
    /\ conversation_count < MaxTurns
    /\ \E in \in Draw("input", InputOutcomes) :
         /\ in.err = ""
         /\ strip(in.line) # <<>>
         /\ lower(strip(in.line)) \notin ReservedWords
         /\ Observe("input", in)
         /\ Passes(in.idle)
         /\ query' = strip(in.line)
    /\ conversation_count' = conversation_count + 1
    /\ pc' = "embed_get"
    /\ stdout' = <<"query">>
    /\ turn' = [NoTurn EXCEPT !.status = "Running"]
    /\ NewPrompt
    /\ UNCHANGED <<CACHE_TTL_HOURS, graph_failed>>

\* input() raises (EOFError): the exception reaches the handler of the loop.
main_input_error ==
    /\ pc = "prompt"
    /\ \E in \in Draw("input", InputOutcomes) :
         /\ in.err # ""
         /\ Observe("input", in)
    /\ pc' = "except"
    /\ stdout' = <<>>
    /\ turn' = NoTurn
    /\ NewPrompt
    /\ UNCHANGED <<conversation_count, CACHE_TTL_HOURS, graph_failed, query,
                   conn, last_embed>>

(***************************************************************************)
(* pinecone_query(), lines 113-127, and embed_text(), lines 81-111.        *)
(***************************************************************************)
\* A pinecone_query() without its handler: the error reaches main().
pinecone_query_propagates ==
    /\ matches' = matches
    /\ stdout' = stdout
    /\ pc' = "except"

\* except Exception as e: print(...); return []      (lines 125-127)
pinecone_query_except ==
    /\ matches' = <<>>
    /\ stdout' = Append(stdout, "pinecone_error")
    /\ pc' = "main_check"

\* A test that takes no error for a rate limit.
is_rate_limit_never(e) == FALSE

\* "429" in str(e)
is_rate_limit(e) == e = "429"

\* A doubling backoff: 10, 20, 40.
wait_time_doubling(att) == BACKOFF_SECONDS * 2 ^ att

\* wait_time = (attempt + 1) * 10
wait_time(att) == (att + 1) * BACKOFF_SECONDS

\* if cached:
truthy(v) == v.dim > 0

\* embed_text() returns v; l is the log of the invocation.
embed_text_returns(v, l) ==
    /\ vec' = v
    /\ embedding' = NoVec
    /\ log' = Append(l, Event("return", 0, ""))
    /\ pc' = "index_query"

\* An embed_text() that returns None where it should raise.
embed_text_returns_none(l) ==
    /\ log' = Append(l, Event("return", 0, ""))
    /\ embedding' = NoVec
    /\ vec' = NoVec
    /\ pc' = "index_query"
    /\ UNCHANGED <<matches, stdout>>

\* embed_text() raises; pinecone_query() catches it.
embed_text_raises(l) ==
    /\ log' = Append(l, Event("raise", 0, ""))
    /\ embedding' = NoVec
    /\ pinecone_query_except
    /\ UNCHANGED vec

\* An attempt ended with an error other than a rate limit (lines 106-109).
embed_text_error(l) ==
    IF attempt = retry_count - 1
    THEN /\ embed_text_raises(l)
         /\ UNCHANGED attempt
    ELSE /\ attempt' = attempt + 1
         /\ log' = l
         /\ embedding' = NoVec
         /\ pc' = "embed_sleep"
         /\ UNCHANGED <<vec, matches, stdout>>

\* cached = get_cached_embeddings(text): conn.get raises.
embed_get_raise ==
    /\ pc = "embed_get"
    /\ \E r \in Draw("cache_get", CacheOutcomes) :
         /\ r # "ok"
         /\ Observe("cache_get", r)
         /\ embed_text_raises(Append(log, Event("get", 0, r)))
    /\ turn' = [turn EXCEPT !.get_raised = TRUE]
    /\ UNCHANGED <<conversation_count, CACHE_TTL_HOURS, graph_failed, query,
                   attempt, nid_i, graph_facts, prompt, answer, USE_NEO4J,
                   neo4j_driver, conn, last_embed>>

\* if cached: return cached
embed_get_hit ==
    /\ pc = "embed_get"
    /\ \E r \in Draw("cache_get", CacheOutcomes) :
         /\ r = "ok"
         /\ Observe("cache_get", r)
    /\ truthy(get_cached_embeddings(conn, query))
    /\ embed_text_returns(get_cached_embeddings(conn, query),
                          Append(log, Event("get", 0, "hit")))
    /\ UNCHANGED <<conversation_count, CACHE_TTL_HOURS, graph_failed, query,
                   attempt, matches, nid_i, graph_facts, prompt, answer,
                   USE_NEO4J, neo4j_driver, conn, stdout, turn, last_embed>>

\* for attempt in range(retry_count):
embed_get_miss ==
    /\ pc = "embed_get"
    /\ \E r \in Draw("cache_get", CacheOutcomes) :
         /\ r = "ok"
         /\ Observe("cache_get", r)
    /\ ~truthy(get_cached_embeddings(conn, query))
    /\ attempt' = 0
    /\ log' = Append(log, Event("get", 0, "miss"))
    /\ pc' = "embed_sleep"
    /\ UNCHANGED <<conversation_count, CACHE_TTL_HOURS, graph_failed, query,
                   embedding, vec, matches, nid_i, graph_facts, prompt,
                   answer, USE_NEO4J, neo4j_driver, conn, stdout, turn,
                   last_embed>>

\* time.sleep(0.5)
embed_sleep ==
    /\ pc = "embed_sleep"
    /\ Sleep(PACING_MS)
    /\ pc' = "embed_create"
    /\ UNCHANGED <<conversation_count, CACHE_TTL_HOURS, graph_failed, query,
                   attempt, embedding, vec, matches, nid_i, graph_facts,
                   prompt, answer, USE_NEO4J, neo4j_driver, conn, stdout,
                   turn, last_embed, harness>>

\* resp = client.embeddings.create(...); embedding = resp.data[0].embedding
embed_create ==
    /\ pc = "embed_create"
    /\ \E r \in Draw("embed", EmbedOutcomes) :
         /\ Observe("embed", r)
         /\ LET l == Append(log, Event("call", 0, r.err)) IN
            CASE r.err = "" ->
                   /\ embedding' = r.vec
                   /\ log' = l
                   /\ pc' = "embed_save"
                   /\ UNCHANGED <<attempt, vec, matches, stdout>>
              [] is_rate_limit(r.err) ->
                   /\ log' = l
                   /\ pc' = "embed_backoff"
                   /\ UNCHANGED <<attempt, embedding, vec, matches, stdout>>
              [] OTHER -> embed_text_error(l)
    /\ turn' = [turn EXCEPT !.called = @ \cup {"embed"}]
    /\ UNCHANGED <<conversation_count, CACHE_TTL_HOURS, graph_failed, query,
                   nid_i, graph_facts, prompt, answer, USE_NEO4J,
                   neo4j_driver, conn, last_embed>>

\* time.sleep(wait_time), then the next iteration, or after the last one
\* raise Exception("Failed to get embeddings after retries")
embed_backoff ==
    /\ pc = "embed_backoff"
    /\ LET l == Append(log, Event("sleep", Seconds(wait_time(attempt)), "")) IN
       IF attempt + 1 < retry_count
       THEN /\ attempt' = attempt + 1
            /\ log' = l
            /\ pc' = "embed_sleep"
            /\ UNCHANGED <<embedding, vec, matches, stdout>>
       ELSE /\ embed_text_raises(l)
            /\ UNCHANGED attempt
    /\ UNCHANGED <<conversation_count, CACHE_TTL_HOURS, graph_failed, query,
                   nid_i, graph_facts, prompt, answer, USE_NEO4J,
                   neo4j_driver, conn, turn, last_embed, harness>>

\* save_embeddings(text, embedding); return embedding.  A ConnectionError of
\* conn.setex is raised inside the try and handled as any other error.
embed_save ==
    /\ pc = "embed_save"
    /\ \E r \in Draw("cache_set", CacheOutcomes) :
         /\ Observe("cache_set", r)
         /\ IF r = "ok"
            THEN /\ conn' = save_embeddings(conn, query, embedding)
                 /\ embed_text_returns(embedding,
                                       Append(log, Event("set", 0, r)))
                 /\ UNCHANGED <<attempt, matches, stdout>>
            ELSE /\ embed_text_error(Append(log, Event("set", 0, r)))
                 /\ UNCHANGED conn
    /\ UNCHANGED <<conversation_count, CACHE_TTL_HOURS, graph_failed, query,
                   nid_i, graph_facts, prompt, answer, USE_NEO4J,
                   neo4j_driver, turn, last_embed>>

\* res = index.query(vector=vec, top_k=top_k, ...); return res["matches"]
index_query ==
    /\ pc = "index_query"
    /\ \E r \in Draw("index", IndexOutcomes(TOP_K)) :
         /\ Observe("index", r)
         /\ IF r.err = ""
            THEN /\ matches' = r.matches
                 /\ stdout' = Append(stdout, "debug_pinecone")
                 /\ pc' = "main_check"
            ELSE pinecone_query_except
    /\ turn' = [turn EXCEPT !.called = @ \cup {"index"}]
    /\ last_embed' =
         IF \A i \in 1..Len(log) : log[i].out # "ConnectionError"
         THEN [text |-> query, vec |-> vec, ncalls |-> Count(log, "call"),
               nok |-> CountOk(log), clean |-> TRUE]
         ELSE NoEmbed
    /\ UNCHANGED <<conversation_count, CACHE_TTL_HOURS, graph_failed, query,
                   attempt, embedding, vec, nid_i, graph_facts, prompt,
                   answer, USE_NEO4J, neo4j_driver, conn, log>>

(***************************************************************************)
(* main(), lines 265-271, and fetch_graph_context(), lines 129-164.        *)
(***************************************************************************)
\* An emptiness test that lets every result through.
not_matches_never(ms) == FALSE

\* if not matches:
not_matches(ms) == ms = <<>>

\* A guard that never takes the graph for disabled.
graph_disabled_never(use, driver) == FALSE

\* if not USE_NEO4J or not neo4j_driver:
graph_disabled(use, driver) == ~use \/ driver = None

\* print("No relevant information found..."); continue
main_no_matches ==
    /\ pc = "main_check"
    /\ not_matches(matches)
    /\ stdout' = Append(stdout, "no_relevant_information")
    /\ turn' = [turn EXCEPT !.status = "Degraded"]
    /\ pc' = "prompt"
    /\ UNCHANGED <<conversation_count, CACHE_TTL_HOURS, graph_failed, query,
                   attempt, embedding, vec, matches, nid_i, graph_facts,
                   prompt, answer, USE_NEO4J, neo4j_driver, conn, log,
                   last_embed, harness>>

\* fetch_graph_context(match_ids): return [] at once
fetch_graph_disabled ==
    /\ pc = "main_check"
    /\ ~not_matches(matches)
    /\ graph_disabled(USE_NEO4J, neo4j_driver)
    /\ graph_facts' = <<>>
    /\ log' = <<>>
    /\ pc' = "build_prompt"
    /\ UNCHANGED <<conversation_count, CACHE_TTL_HOURS, graph_failed, query,
                   attempt, embedding, vec, matches, nid_i, prompt, answer,
                   USE_NEO4J, neo4j_driver, conn, stdout, turn, last_embed,
                   harness>>

\* facts = []; with neo4j_driver.session() as session:
\* An error of the driver is printed and [] returned (lines 162-164).
fetch_graph_session ==
    /\ pc = "main_check"
    /\ ~not_matches(matches)
    /\ ~graph_disabled(USE_NEO4J, neo4j_driver)
    /\ \E r \in SessionOutcomes :
         /\ IF r = "ok"
            THEN /\ pc' = "graph_run"
                 /\ UNCHANGED stdout
               ELSE /\ stdout' = Append(stdout, "graph_query_error")
                 /\ pc' = "build_prompt"
         /\ graph_failed' = (graph_failed \/ r \in GraphErrors)
    /\ graph_facts' = <<>>
    /\ nid_i' = 1
    /\ log' = <<>>
    /\ turn' = [turn EXCEPT !.called = @ \cup {"graph"}]
    /\ UNCHANGED <<conversation_count, CACHE_TTL_HOURS, query, attempt,
                   embedding, vec, matches, prompt, answer, USE_NEO4J,
                   neo4j_driver, conn, last_embed, harness>>

\* The fact appended for record r of node nid (lines 147-154).
fact(nid, r) ==
    [source |-> nid, rel |-> r.rel, target_id |-> r.id, target_name |-> r.name]

\* The query of one node, noted in the log of fetch_graph_context().
RunEvent(r) == [ev |-> "run", ms |-> 0, out |-> r.err, recs |-> r.recs]

\* A loop that gives up at the first node whose query fails.
after_node_error_break(i, n) == n + 1

\* except Exception as e: print(...); continue      (lines 155-157)
\* The position in node_ids the loop goes on from after node i of n failed.
after_node_error(i, n) == i + 1

\* for nid in node_ids: recs = session.run(q, nid=nid); facts.append(...)
\* The facts of the records delivered are appended; an error of the node
\* is printed and the loop continues.
fetch_graph_run ==
    /\ pc = "graph_run"
    /\ nid_i <= Len(matches)
    /\ LET nid == matches[nid_i].id IN
       \E r \in GraphOutcomes(nid) :
         /\ graph_facts' =
              graph_facts \o [i \in 1..Len(r.recs) |-> fact(nid, r.recs[i])]
         /\ log' = Append(log, RunEvent(r))
         /\ IF r.err = ""
            THEN /\ nid_i' = nid_i + 1
                 /\ UNCHANGED stdout
            ELSE /\ nid_i' = after_node_error(nid_i, Len(matches))
                 /\ stdout' = Append(stdout, "graph_node_error")
         /\ graph_failed' = (graph_failed \/ r.err \in GraphErrors)
    /\ turn' = [turn EXCEPT !.called = @ \cup {"graph"}]
    /\ UNCHANGED <<pc, conversation_count, CACHE_TTL_HOURS, query, attempt,
                   embedding, vec, matches, prompt, answer, USE_NEO4J,
                   neo4j_driver, conn, last_embed, harness>>

\* print("DEBUG: Graph returned ..."); return facts
fetch_graph_return ==
    /\ pc = "graph_run"
    /\ nid_i > Len(matches)
    /\ stdout' = Append(stdout, "debug_graph")
    /\ pc' = "build_prompt"
    /\ UNCHANGED <<conversation_count, CACHE_TTL_HOURS, graph_failed, query,
                   attempt, embedding, vec, matches, nid_i, graph_facts,
                   prompt, answer, USE_NEO4J, neo4j_driver, conn, log, turn,
                   last_embed, harness>>

(***************************************************************************)
(* build_prompt(), lines 166-207.                                          *)
(***************************************************************************)
\* A slice that keeps the whole list.
Take_all(l, n) == l

\* l[:n]
Take(l, n) == SubSeq(l, 1, IF Len(l) < n THEN Len(l) ELSE n)

\* The line of one match (lines 177-187); the fields of the metadata are
\* left out.
vec_snippet(m) == [id |-> m.id, relevance |-> m.score]

\* meta = m.get("metadata", {}); meta.get('name', 'N/A'): an AttributeError
\* where the metadata of a match are None.
build_prompt_raises(pinecone_matches) ==
    \E i \in 1..Len(pinecone_matches) : pinecone_matches[i].metadata = None

\* The line of one fact (lines 192-194).
graph_snippet(f) ==
    [source |-> f.source, rel |-> f.rel, target_id |-> f.target_id,
     target_name |-> f.target_name]

build_prompt(user_query, pinecone_matches, facts) ==
    LET vec_context ==
            [i \in 1..Len(pinecone_matches) |-> vec_snippet(pinecone_matches[i])]
        graph_context ==
            [i \in 1..Len(facts) |-> graph_snippet(facts[i])]
    IN [query |-> user_query,
        vec |-> Take(vec_context, MAX_VEC_SNIPPETS),
        graph |-> Take(graph_context, MAX_GRAPH_SNIPPETS),
        placeholder |-> graph_context = <<>>,
        \* context_text: the sections in the order they are concatenated
        sections |-> IF graph_context # <<>>
                     THEN <<"vec", "graph">>
                     ELSE <<"vec", "placeholder">>]

\* prompt = build_prompt(query, matches, graph_facts); answer = call_chat(prompt)
main_build_prompt ==
    /\ pc = "build_prompt"
    /\ IF build_prompt_raises(matches)
       THEN /\ pc' = "except"
            /\ UNCHANGED prompt
       ELSE /\ prompt' = build_prompt(query, matches, graph_facts)
            /\ pc' = "chat_sleep"
    /\ attempt' = 0
    /\ log' = <<>>
    /\ UNCHANGED <<conversation_count, CACHE_TTL_HOURS, graph_failed, query,
                   embedding, vec, matches, nid_i, graph_facts, answer,
                   USE_NEO4J, neo4j_driver, conn, stdout, turn, last_embed,
                   harness>>

(***************************************************************************)
(* call_chat(), lines 209-233.                                             *)
(***************************************************************************)
SORRY_ERROR ==
    "Sorry, I encountered an error generating a response. Please try again."
SORRY_RATE_LIMIT ==
    "Sorry, the service is temporarily unavailable due to rate limits. Please try again in a moment."

\* A call_chat() whose result sends the turn back to the vector query.
call_chat_returns_to_retrieval(a, l) ==
    /\ answer' = a
    /\ log' = Append(l, Event("return", 0, ""))
    /\ pc' = "index_query"
    /\ UNCHANGED attempt

\* call_chat() returns a.
call_chat_returns(a, l) ==
    /\ answer' = a
    /\ log' = Append(l, Event("return", 0, ""))
    /\ pc' = "print_answer"
    /\ UNCHANGED attempt

\* time.sleep(0.5)
chat_sleep ==
    /\ pc = "chat_sleep"
    /\ Sleep(PACING_MS)
    /\ pc' = "chat_create"
    /\ UNCHANGED <<conversation_count, CACHE_TTL_HOURS, graph_failed, query,
                   attempt, embedding, vec, matches, nid_i, graph_facts,
                   prompt, answer, USE_NEO4J, neo4j_driver, conn, stdout,
                   turn, last_embed, harness>>

\* A call_chat() that re-raises the error of its last attempt.
call_chat_error_raises(l) ==
    IF attempt = retry_count - 1
    THEN /\ log' = Append(l, Event("raise", 0, ""))
         /\ pc' = "except"
         /\ UNCHANGED <<answer, attempt>>
    ELSE /\ attempt' = attempt + 1
         /\ log' = l
         /\ pc' = "chat_sleep"
         /\ UNCHANGED answer

\* An attempt ended with an error other than a rate limit (lines 228-231).
call_chat_error(l) ==
    IF attempt = retry_count - 1
    THEN call_chat_returns(SORRY_ERROR, l)
    ELSE /\ attempt' = attempt + 1
         /\ log' = l
         /\ pc' = "chat_sleep"
         /\ UNCHANGED answer

\* resp = client.chat.completions.create(...); return its content
chat_create ==
    /\ pc = "chat_create"
    /\ \E r \in Draw("chat", ChatOutcomes) :
         /\ Observe("chat", r)
         /\ LET l == Append(log, Event("call", 0, r.err)) IN
            CASE r.err = "" -> call_chat_returns(r.content, l)
              [] is_rate_limit(r.err) ->
                   /\ log' = l
                   /\ pc' = "chat_backoff"
                   /\ UNCHANGED <<attempt, answer>>
              [] OTHER -> call_chat_error(l)
    /\ turn' = [turn EXCEPT !.called = @ \cup {"chat"}]
    /\ UNCHANGED <<conversation_count, CACHE_TTL_HOURS, graph_failed, query,
                   embedding, vec, matches, nid_i, graph_facts, prompt,
                   USE_NEO4J, neo4j_driver, conn, stdout, last_embed>>

\* time.sleep(wait_time), then the next iteration, or after the last one
\* return the rate-limit apology (line 233)
chat_backoff ==
    /\ pc = "chat_backoff"
    /\ LET l == Append(log, Event("sleep", Seconds(wait_time(attempt)), "")) IN
       IF attempt + 1 < retry_count
       THEN /\ attempt' = attempt + 1
            /\ log' = l
            /\ pc' = "chat_sleep"
            /\ UNCHANGED answer
       ELSE call_chat_returns(SORRY_RATE_LIMIT, l)
    /\ UNCHANGED <<conversation_count, CACHE_TTL_HOURS, graph_failed, query,
                   embedding, vec, matches, nid_i, graph_facts, prompt,
                   USE_NEO4J, neo4j_driver, conn, stdout, turn, last_embed,
                   harness>>

(***************************************************************************)
(* main(): output and the handlers of the loop, lines 277-291.             *)
(***************************************************************************)
\* print(answer) ...; an error of print reaches the handler of the loop.
main_print ==
    /\ pc = "print_answer"
    /\ \E r \in Draw("print", PrintOutcomes) :
         /\ Observe("print", r)
         /\ IF r = "ok"
            THEN /\ stdout' = Append(stdout, answer)
                 /\ turn' = [turn EXCEPT !.status = "Answered"]
                 /\ pc' = "prompt"
            ELSE /\ pc' = "except"
                 /\ UNCHANGED <<stdout, turn>>
    /\ UNCHANGED <<conversation_count, CACHE_TTL_HOURS, graph_failed, query,
                   attempt, embedding, vec, matches, nid_i, graph_facts,
                   prompt, answer, USE_NEO4J, neo4j_driver, conn, log,
                   last_embed>>

\* A handler that leaves the loop.
main_except_break ==
    /\ pc = "except"
    /\ stdout' = Append(stdout, "unexpected_error")
    /\ turn' = [turn EXCEPT !.status = IF @ = "Idle" THEN @ ELSE "Failed"]
    /\ pc' = "done"
    /\ UNCHANGED <<conversation_count, CACHE_TTL_HOURS, graph_failed, query,
                   attempt, embedding, vec, matches, nid_i, graph_facts,
                   prompt, answer, USE_NEO4J, neo4j_driver, conn, log,
                   last_embed, harness>>

\* except Exception as e: print("Unexpected error"); continue
main_except ==
    /\ pc = "except"
    /\ stdout' = Append(stdout, "unexpected_error")
    /\ turn' = [turn EXCEPT !.status = IF @ = "Idle" THEN @ ELSE "Failed"]
    /\ pc' = "prompt"
    /\ UNCHANGED <<conversation_count, CACHE_TTL_HOURS, graph_failed, query,
                   attempt, embedding, vec, matches, nid_i, graph_facts,
                   prompt, answer, USE_NEO4J, neo4j_driver, conn, log,
                   last_embed, harness>>

\* except KeyboardInterrupt: print("Interrupted. Goodbye!"); break
\* An interrupt that arrives inside the handler of line 289 is not caught.
\* main() is left either way: its locals are gone.  A setex that was in
\* flight has been carried out by Redis as a whole, or not at all.
main_interrupt ==
    /\ pc \notin {"done"}
    /\ stdout' = IF pc = "except"
                 THEN <<"KeyboardInterrupt">>
                 ELSE <<"interrupted">>
    /\ pc' = "done"
    /\ turn' = NoTurn
    /\ query' = <<>>
    /\ NewPrompt
    /\ \/ conn' = conn
       \/ pc = "embed_save" /\ conn' = save_embeddings(conn, query, embedding)
    /\ UNCHANGED <<conversation_count, CACHE_TTL_HOURS, graph_failed,
                   last_embed, harness>>

(***************************************************************************)
(* The specification.                                                      *)
(***************************************************************************)
Turn ==
    \/ main_input_empty
    \/ main_input_exit
    \/ main_input_query
    \/ main_input_error
    \/ embed_get_raise
    \/ embed_get_hit
    \/ embed_get_miss
    \/ embed_sleep
    \/ embed_create
    \/ embed_backoff
    \/ embed_save
    \/ index_query
    \/ main_no_matches
    \/ fetch_graph_disabled
    \/ fetch_graph_session
    \/ fetch_graph_run
    \/ fetch_graph_return
    \/ main_build_prompt
    \/ chat_sleep
    \/ chat_create
    \/ chat_backoff
    \/ main_print
    \/ main_except

Next == Turn \/ main_interrupt

Spec == Init /\ [][Next]_vars

\* The handler of the loop, once entered, runs to its end.
SpecLive == Spec /\ WF_vars(main_except)

\* The interpreter keeps running and every collaborator answers in the end.
SpecRun == Spec /\ WF_vars(Turn)

(***************************************************************************)
(* SpecPair: every turn is run twice from the same state up to the built   *)
(* prompt, first with the graph collaborator connected, then with it       *)
(* disabled (the state lines 59-73 leave after a failed connection).       *)
(***************************************************************************)
InitPair ==
    /\ InitProgram
    /\ USE_NEO4J = TRUE
    /\ neo4j_driver = "driver"
    /\ graph_failed = FALSE
    /\ harness = [HarnessOff EXCEPT !.phase = "rest"]

\* The prompt is built, or the turn is over without one.
AtPrompt == pc \in {"prompt", "chat_create"}

FirstRunOver == harness.phase = "first" /\ AtPrompt

SecondRunOver == harness.phase = "replay" /\ harness.mpos > 1 /\ AtPrompt

\* The first run is over: back to the start of the turn, graph disabled.
replay_begin ==
    /\ FirstRunOver
    /\ harness' = [harness EXCEPT
                     !.phase = "replay",
                     !.mpos = 1,
                     !.ref = [pc |-> pc, matches |-> matches,
                              graph_facts |-> graph_facts, prompt |-> prompt,
                              stdout |-> stdout, turn |-> turn, conn |-> conn]]
    /\ conn' = harness.snap.conn
    /\ conversation_count' = harness.snap.conversation_count
    /\ last_embed' = harness.snap.last_embed
    /\ USE_NEO4J' = FALSE
    /\ neo4j_driver' = None
    /\ pc' = "prompt"
    /\ UNCHANGED <<CACHE_TTL_HOURS, graph_failed>>
    /\ UNCHANGED <<query, attempt, embedding, vec, matches, nid_i,
                   graph_facts, prompt, answer, stdout, log, turn>>

\* The second run is over: the turn goes on as the first run left it.
replay_end ==
    /\ SecondRunOver
    /\ harness' = [HarnessOff EXCEPT !.phase = "rest"]
    /\ USE_NEO4J' = TRUE
    /\ neo4j_driver' = "driver"
    /\ graph_facts' = harness.ref.graph_facts
    /\ prompt' = harness.ref.prompt
    /\ stdout' = harness.ref.stdout
    /\ turn' = harness.ref.turn
    /\ UNCHANGED <<pc, conversation_count, CACHE_TTL_HOURS, graph_failed,
                   query, attempt, embedding, vec, matches, nid_i, answer,
                   conn, log, last_embed>>

NextPair == Turn \/ replay_begin \/ replay_end

SpecPair == InitPair /\ [][NextPair]_vars

(***************************************************************************)
(* SpecBuild: build_prompt() as main() calls it at line 274, on lists of   *)
(* matches and of facts of every length up to MaxMatches and MaxFacts.     *)
(***************************************************************************)
\* The i-th match, the scores running up or down the list.
MatchAt(i, up) ==
    [id |-> i, score |-> IF up THEN i ELSE 100 - i, metadata |-> "dict"]

BuildMatches ==
    {[i \in 1..n |-> MatchAt(i, up)] : n \in 0..MaxMatches, up \in BOOLEAN}

FactAt(i) ==
    [source |-> i % 3, rel |-> "NEAR", target_id |-> 100 - i,
     target_name |-> "city"]

BuildFacts == {[i \in 1..n |-> FactAt(i)] : n \in 0..MaxFacts}

InitBuild ==
    /\ pc = "build_prompt"
    /\ conversation_count = 1
    /\ query \in Texts
    /\ attempt = 0
    /\ embedding = NoVec
    /\ vec = NoVec
    /\ matches \in BuildMatches
    /\ nid_i = 1
    /\ graph_facts \in BuildFacts
    /\ prompt = NoPrompt
    /\ answer = None
    /\ USE_NEO4J = TRUE
    /\ neo4j_driver = "driver"
    /\ conn = [k \in CacheKeys |-> NoEntry]
    /\ stdout = <<"query">>
    /\ log = <<>>
    /\ turn = [NoTurn EXCEPT !.status = "Running"]
    /\ last_embed = NoEmbed
    /\ harness = HarnessOff
    /\ CACHE_TTL_HOURS = CACHE_TTL_DEFAULT
    /\ graph_failed = FALSE

NextBuild == main_build_prompt

SpecBuild == InitBuild /\ [][NextBuild]_vars

(***************************************************************************)
(* The cache module on its own: its two savers are called on texts and     *)
(* time passes, under each configuration of CACHE_TTL_HOURS.  The log      *)
(* holds the calls made and the waits, oldest first.                       *)
(***************************************************************************)
MaxCacheOps == 5

\* The values of the environment variable CACHE_TTL_HOURS, in hours.
ConfiguredTTLs == {CACHE_TTL_DEFAULT, CACHE_TTL_DEFAULT \div 2}

\* How long the cache may be left alone between two calls, in seconds.
CacheWaits == {(CACHE_TTL_DEFAULT \div 4) * SECONDS_PER_HOUR,
               (CACHE_TTL_DEFAULT \div 2) * SECONDS_PER_HOUR}

CacheCall(op, text, value, secs) ==
    [op |-> op, text |-> text, value |-> value, secs |-> secs]

InitCache ==
    /\ pc = "cache"
    /\ CACHE_TTL_HOURS \in ConfiguredTTLs
    /\ conn = [k \in CacheKeys |-> NoEntry]
    /\ log = <<>>
    /\ conversation_count = 0
    /\ query = <<>>
    /\ attempt = 0
    /\ embedding = NoVec
    /\ vec = NoVec
    /\ matches = <<>>
    /\ nid_i = 1
    /\ graph_facts = <<>>
    /\ prompt = NoPrompt
    /\ answer = None
    /\ USE_NEO4J = TRUE
    /\ neo4j_driver = "driver"
    /\ graph_failed = FALSE
    /\ stdout = <<>>
    /\ turn = NoTurn
    /\ last_embed = NoEmbed
    /\ harness = HarnessOff

CacheFrame ==
    UNCHANGED <<pc, conversation_count, CACHE_TTL_HOURS, graph_failed, query,
                attempt, embedding, vec, matches, nid_i, graph_facts, prompt,
                answer, USE_NEO4J, neo4j_driver, stdout, turn, last_embed,
                harness>>

cache_save_embeddings ==
    /\ pc = "cache"
    /\ Len(log) < MaxCacheOps
    /\ \E t \in Texts, v \in Vectors :
         /\ conn' = save_embeddings(conn, t, v)
         /\ log' = Append(log, CacheCall("save_embeddings", t, v, 0))
    /\ CacheFrame

cache_save_answer ==
    /\ pc = "cache"
    /\ Len(log) < MaxCacheOps
    /\ \E q \in Texts, a \in ChatContents :
         /\ conn' = save_cached_answer(conn, q, a, CACHE_TTL_HOURS)
         /\ log' = Append(log, CacheCall("save_cached_answer", q, a, 0))
    /\ CacheFrame

cache_elapse ==
    /\ pc = "cache"
    /\ Len(log) < MaxCacheOps
    /\ \E d \in CacheWaits :
         /\ conn' = Elapse(conn, d)
         /\ log' = Append(log, CacheCall("wait", <<>>, None, d))
    /\ CacheFrame

NextCache == cache_save_embeddings \/ cache_save_answer \/ cache_elapse

SpecCache == InitCache /\ [][NextCache]_vars

(***************************************************************************)
(* The session starts on a Redis that holds an entry an earlier deployment *)
(* wrote with another embedding dimension; Redis outlives the process.     *)
(***************************************************************************)
StaleVec == [dim |-> DIMENSIONS \div 2, val |-> "v0"]

\* The text the stale entry was cached for.
StaleText == <<"a">>

InitStale ==
    /\ pc = "prompt"
    /\ conversation_count = 0
    /\ query = <<>>
    /\ attempt = 0
    /\ embedding = NoVec
    /\ vec = NoVec
    /\ matches = <<>>
    /\ nid_i = 1
    /\ graph_facts = <<>>
    /\ prompt = NoPrompt
    /\ answer = None
    /\ conn = save_embeddings([k \in CacheKeys |-> NoEntry], StaleText, StaleVec)
    /\ stdout = <<>>
    /\ log = <<>>
    /\ turn = NoTurn
    /\ last_embed = NoEmbed
    /\ CACHE_TTL_HOURS = CACHE_TTL_DEFAULT
    /\ \/ USE_NEO4J = TRUE /\ neo4j_driver = "driver" /\ graph_failed = FALSE
       \/ USE_NEO4J = FALSE /\ neo4j_driver = None /\ graph_failed = TRUE
    /\ harness = HarnessOff

SpecStale == InitStale /\ [][Next]_vars

(***************************************************************************)
(* Properties.  The log holds the events of the embed_text() or            *)
(* call_chat() invocation that runs or ran last in the turn; turn.called   *)
(* the collaborators called since the line was read.                       *)
(***************************************************************************)
RetrievalPcs ==
    {"embed_get", "embed_sleep", "embed_create", "embed_backoff",
     "embed_save", "index_query"}

GenerationPcs == {"chat_sleep", "chat_create", "chat_backoff"}

Sentinels == {SORRY_ERROR, SORRY_RATE_LIMIT}

Pacing == Event("sleep", PACING_MS, "")

\* C1: in a turn where pinecone_query() returns zero matches neither the
\* graph store nor the generation provider is called, the "no relevant
\* information" notice is printed and the loop is back at the prompt (unless
\* the user interrupts before the notice).
C1_EmptyResultShortCircuit ==
    /\ [](Len(matches) = 0 => turn.called \cap {"graph", "chat"} = {})
    /\ [][(pc = "main_check" /\ Len(matches) = 0 /\ pc' # "done")
            => /\ pc' = "prompt"
               /\ stdout' = Append(stdout, "no_relevant_information")
               /\ turn'.called = turn.called]_vars

\* The index answered with zero matches and the turn is over.
C1_Witness ==
    /\ pc = "prompt"
    /\ turn.called = {"embed", "index"}
    /\ stdout = <<"query", "debug_pinecone", "no_relevant_information">>

\* C2: when the cache get raises a connectivity error, embed_text() goes on
\* to the provider as after a miss, and the turn is degraded only where the
\* provider or the index fails.
C2_CacheUnavailableIsMiss ==
    turn.get_raised =>
        /\ "embed" \in turn.called
        /\ turn.status = "Degraded" =>
              \/ Count(log, "call") = retry_count
              \/ "index" \in turn.called

\* The second of two embed_text() calls with the same text has returned: the
\* first made a provider call that succeeded, Redis answered every command,
\* and the entry has not run out since.
SecondCall ==
    /\ pc = "index_query"
    /\ last_embed.clean
    /\ last_embed.text = query
    /\ last_embed.nok >= 1

\* What holds of the second call as such: a hit, no provider call, no
\* sleep, the vector of the first call.
SecondCallIsHit ==
    /\ log = <<Event("get", 0, "hit"), Event("return", 0, "")>>
    /\ truthy(vec)
    /\ vec = last_embed.vec

\* C3 (as stated): the two calls make exactly one provider call in total.
C3_ExactlyOneCallInTotal ==
    SecondCall =>
        /\ SecondCallIsHit
        /\ last_embed.ncalls + Count(log, "call") = 1

\* C3 (amended): the second call is a hit that makes no provider call and
\* no sleep and returns the vector of the first call; in total exactly one
\* provider call succeeds, and the calls in total are the attempts of the
\* first call, between 1 and retry_count.
C3_SecondCallAddsNoCall ==
    SecondCall =>
        /\ SecondCallIsHit
        /\ last_embed.nok + CountOk(log) = 1
        /\ last_embed.ncalls + Count(log, "call") = last_embed.ncalls
        /\ last_embed.ncalls \in 1..retry_count

\* The first call needed two attempts; the second call was a hit.
C3_Witness ==
    /\ SecondCall
    /\ last_embed.ncalls = 2
    /\ log[1].out = "hit"

\* C4: call_chat() never propagates a failure of the provider: it returns
\* the content of the first successful attempt, or a sentinel apology when
\* all retry_count attempts fail; the answer is printed and the turn ends
\* Answered (Failed only where the output itself fails after the return).
C4_ChatNeverPropagates ==
    /\ [](pc = "print_answer" =>
            /\ Last(log).ev = "return"
            /\ IF CountOk(log) = 0
               THEN Count(log, "call") = retry_count /\ answer \in Sentinels
               ELSE answer \in ChatContents)
    /\ [][(pc \in GenerationPcs)
            => pc' \in GenerationPcs \cup {"print_answer", "done"}]_vars
    /\ []((pc = "except" /\ "chat" \in turn.called) => Last(log).ev = "return")
    /\ []((pc = "prompt" /\ "chat" \in turn.called) =>
            \/ turn.status = "Answered" /\ Last(stdout) = answer
            \/ turn.status = "Failed" /\ Last(log).ev = "return")

\* All three attempts failed, the last with an error other than a rate
\* limit; the apology was printed.
C4_Witness ==
    /\ pc = "prompt"
    /\ turn.status = "Answered"
    /\ Last(stdout) = SORRY_ERROR
    /\ Count(log, "call") = retry_count
    /\ CountOk(log) = 0

\* C5: pinecone_query() never propagates a failure: a failed index query
\* or an embed_text() that raised yields the empty list (the index is not
\* queried after embed_text() raised), and the turn ends Degraded.
C5_RetrievalNeverPropagates ==
    /\ [][(pc \in RetrievalPcs)
            => pc' \in RetrievalPcs \cup {"main_check", "done"}]_vars
    /\ [](pc = "main_check" =>
            /\ Last(stdout) \in {"debug_pinecone", "pinecone_error"}
            /\ Last(stdout) = "pinecone_error" => Len(matches) = 0
            /\ Last(log).ev = "raise" =>
                  /\ Last(stdout) = "pinecone_error"
                  /\ "index" \notin turn.called)
    /\ []((pc = "except" /\ turn.status # "Idle") => Len(matches) > 0)
    /\ [][(pc = "main_check" /\ Len(matches) = 0 /\ pc' # "done")
            => turn'.status = "Degraded"]_vars

\* The index query failed after embed_text() returned a vector.
C5_Witness ==
    /\ pc = "main_check"
    /\ "index" \in turn.called
    /\ Last(stdout) = "pinecone_error"
    /\ matches = <<>>

\* C6: a run with the graph collaborator disabled, after the same line and
\* with Redis, the provider and the index answering as in the run with it
\* enabled, ends at the same place with the same matches; it issues no
\* graph-store query, and the prompt it builds has the same query and the
\* same vector section, its graph section being the placeholder.
C6_GraphDisabledSameMatches ==
    SecondRunOver =>
        /\ pc = harness.ref.pc
        /\ matches = harness.ref.matches
        /\ "graph" \notin turn.called
        /\ pc = "chat_create" =>
              /\ prompt.query = harness.ref.prompt.query
              /\ prompt.vec = harness.ref.prompt.vec
              /\ prompt.graph = <<>>
              /\ prompt.placeholder
              /\ harness.ref.prompt.placeholder => prompt = harness.ref.prompt

\* Both runs built a prompt; the first had graph facts in it.
C6_Witness ==
    /\ SecondRunOver
    /\ pc = "chat_create"
    /\ Len(harness.ref.prompt.graph) > 0
    /\ "graph" \in harness.ref.turn.called
    /\ prompt.placeholder

\* C7: an exception that reaches the handler of the loop does not end the
\* session: the handler prints it and the loop is back at the prompt, where
\* a reserved input can still end the session; the session ends only on a
\* reserved input or an interrupt of the user.
C7_ExceptionsStayInTheTurn ==
    /\ [][(pc = "except") =>
            \/ /\ pc' = "prompt"
               /\ stdout' = Append(stdout, "unexpected_error")
               /\ conversation_count' = conversation_count
            \/ /\ pc' = "done"
               /\ stdout' = <<"KeyboardInterrupt">>]_vars
    /\ [][(pc # "done" /\ pc' = "done") =>
            stdout' \in {<<"farewell">>, <<"interrupted">>,
                         <<"KeyboardInterrupt">>}]_vars
    /\ [](pc = "prompt" => ENABLED main_input_exit)
    /\ (pc = "except" ~> pc \in {"prompt", "done"})

\* The output of an answer failed; the handler ran, the loop is at the
\* prompt.
C7_Witness ==
    /\ pc = "prompt"
    /\ turn.status = "Failed"
    /\ "chat" \in turn.called
    /\ Last(stdout) = "unexpected_error"

\* The backoff that follows the rate-limited provider call log[i], the
\* N-th call of the invocation, lasts N * 10 seconds.
BackoffIsLinear(i) ==
    LET N == Count(SubSeq(log, 1, i), "call")
    IN log[i + 1] = Event("sleep", Seconds(N * 10), "")

\* The backoff log[i + 1] is followed by a retry: the pacing sleep and the
\* next provider call.
RetryFollows(i) ==
    /\ i + 2 <= Len(log) => log[i + 2] = Pacing
    /\ i + 3 <= Len(log) => log[i + 3].ev = "call"

RateLimited(i) == log[i].ev = "call" /\ log[i].out = "429" /\ i < Len(log)

C9_BoundedRetryShortCircuit ==
    /\ Count(log, "call") <= retry_count
    /\ \A i \in 1..Len(log) :
         log[i].ev = "call" => i > 1 /\ log[i - 1] = Pacing
    /\ \A i, j \in 1..Len(log) :
         (i < j /\ log[i].ev = "call" /\ log[i].out = "") => log[j].ev # "call"

\* C10: an embed_text() all of whose attempts fail raises to its caller,
\* returns no vector and leaves no entry for its text; embed_text() returns
\* a vector only after a hit or a provider call that succeeded, and an
\* entry is written only with the vector of such a call.
C10_EmbedFailureSurfaces ==
    /\ []((pc = "main_check" /\ log[1].out = "miss"
           /\ Count(log, "call") = retry_count /\ CountOk(log) = 0) =>
            /\ Last(log).ev = "raise"
            /\ vec = NoVec
            /\ conn[get_hash(query)] = NoEntry
            /\ Last(stdout) = "pinecone_error")
    /\ []((pc \notin RetrievalPcs /\ "embed" \in turn.called
           /\ "index" \notin turn.called /\ pc # "done") =>
            /\ vec = NoVec
            /\ pc = "main_check" => Last(log).ev = "raise")
    /\ [](pc = "index_query" =>
            /\ truthy(vec)
            /\ \/ log[1].out = "hit"
               \/ /\ CountOk(log) >= 1
                  /\ log[Len(log) - 1] = Event("set", 0, "ok")
                  /\ log[Len(log) - 2] = Event("call", 0, ""))
    /\ [][\A k \in CacheKeys :
            (conn'[k].data # conn[k].data /\ conn'[k].data # NoData) =>
                /\ pc = "embed_save"
                /\ k = get_hash(query)
                /\ Last(log) = Event("call", 0, "")
                /\ truthy(embedding)
                /\ conn'[k].data = pickle_dumps(embedding)]_vars

\* Three attempts, rate limited and failed otherwise, and embed_text()
\* raised.
C10_Witness ==
    /\ pc = "main_check"
    /\ log[1].out = "miss"
    /\ Count(log, "call") = retry_count
    /\ CountOk(log) = 0
    /\ \E i, j \in 1..Len(log) : log[i].out = "429" /\ log[j].out = "error"
    /\ Last(log).ev = "raise"

\* The facts fetch_graph_context() owes for the first n node ids, given the
\* outcomes l of their queries: those of every record delivered, in the
\* order of the ids.
RECURSIVE FactsOf(_, _, _)
FactsOf(ms, l, n) ==
    IF n = 0
    THEN <<>>
    ELSE FactsOf(ms, l, n - 1)
         \o [i \in 1..Len(l[n].recs) |-> fact(ms[n].id, l[n].recs[i])]

\* C11: a failure of the graph query of one node id does not abort the
\* enrichment: every id is queried, once and in order, and the sequence
\* returned holds, in the order of the ids, all facts of every id whose
\* query succeeded (and those delivered before the error of one that
\* failed).
C11_PartialFailureIsolation ==
    /\ pc = "graph_run" =>
          /\ Len(log) = nid_i - 1
          /\ graph_facts = FactsOf(matches, log, Len(log))
    /\ (pc = "build_prompt" /\ Last(stdout) = "debug_graph") =>
          /\ Len(log) = Len(matches)
          /\ \A i \in 1..Len(log) : log[i].ev = "run"
          /\ graph_facts = FactsOf(matches, log, Len(matches))

\* The query of the first of two ids failed; the second was still queried
\* and its fact returned.
C11_Witness ==
    /\ pc = "build_prompt"
    /\ Last(stdout) = "debug_graph"
    /\ Len(matches) = 2
    /\ log[1].out \in GraphErrors
    /\ log[2].out = ""
    /\ graph_facts = <<fact(matches[2].id, log[2].recs[1])>>

\* C12: the context build_prompt() builds holds the snippets of exactly the
\* first min(10, |matches|) matches and of exactly the first
\* min(20, |facts|) facts, each in the order of its input, the vector
\* section before the graph section; the placeholder stands in the place of
\* the graph section if and only if there are no facts.
C12_PromptBounding ==
    pc = "chat_sleep" =>
        /\ Len(prompt.vec) = IF Len(matches) < 10 THEN Len(matches) ELSE 10
        /\ \A i \in 1..Len(prompt.vec) :
             prompt.vec[i] = [id |-> matches[i].id,
                              relevance |-> matches[i].score]
        /\ Len(prompt.graph) =
             IF Len(graph_facts) < 20 THEN Len(graph_facts) ELSE 20
        /\ \A i \in 1..Len(prompt.graph) :
             prompt.graph[i] = [source |-> graph_facts[i].source,
                                rel |-> graph_facts[i].rel,
                                target_id |-> graph_facts[i].target_id,
                                target_name |-> graph_facts[i].target_name]
        /\ prompt.placeholder <=> graph_facts = <<>>
        /\ prompt.placeholder => prompt.graph = <<>>
        /\ prompt.sections = IF graph_facts = <<>>
                             THEN <<"vec", "placeholder">>
                             ELSE <<"vec", "graph">>
        /\ prompt.query = query

\* 15 matches and 35 facts went in; 10 and 20 snippets came out.
C12_Witness ==
    /\ pc = "chat_sleep"
    /\ Len(matches) = 15
    /\ Len(graph_facts) = 35
    /\ Len(prompt.vec) = 10
    /\ Len(prompt.graph) = 20
    /\ prompt.sections = <<"vec", "graph">>

(***************************************************************************)
(* C13.  An entry written with a time to live is returned by a get of the  *)
(* same text at every time before it has run out (the last write counts)   *)
(* and is absent at every time after; embedding entries, like answers,     *)
(* are written with the configured time to live, CACHE_TTL_HOURS.          *)
(***************************************************************************)
\* The position in the log of the last call of op on text t, 0 if none.
LastWrite(op, t) ==
    LET S == {i \in 1..Len(log) : log[i].op = op /\ log[i].text = t}
    IN IF S = {} THEN 0 ELSE CHOOSE i \in S : \A j \in S : j <= i

RECURSIVE WaitedFrom(_)
\* The seconds waited after position i of the log.
WaitedFrom(i) ==
    IF i >= Len(log) THEN 0 ELSE log[i + 1].secs + WaitedFrom(i + 1)

\* The lookup of text t answers as an entry written at position i with a
\* time to live of ttl seconds should: value before, absent after.
TTLLaw(found, absent, i, ttl) ==
    /\ WaitedFrom(i) < ttl => found = log[i].value
    /\ WaitedFrom(i) > ttl => found = absent

C13_ConfiguredTTLLaw ==
    pc = "cache" =>
      \A t \in Texts :
        LET e == LastWrite("save_embeddings", t)
            a == LastWrite("save_cached_answer", t)
            configured == CACHE_TTL_HOURS * SECONDS_PER_HOUR
        IN /\ e > 0 =>
                TTLLaw(get_cached_embeddings(conn, t), NoVec, e, configured)
           /\ a > 0 =>
                TTLLaw(get_cached_answer(conn, t), None, a, configured)

\* The same law with the time to live save_embeddings() passes to setex.
TTLLawAsWritten ==
    pc = "cache" =>
      \A t \in Texts :
        LET e == LastWrite("save_embeddings", t)
            a == LastWrite("save_cached_answer", t)
        IN /\ e > 0 =>
                TTLLaw(get_cached_embeddings(conn, t), NoVec, e,
                       ttl_hours * SECONDS_PER_HOUR)
           /\ a > 0 =>
                TTLLaw(get_cached_answer(conn, t), None, a,
                       CACHE_TTL_HOURS * SECONDS_PER_HOUR)

(***************************************************************************)
(* C14.  A line that is empty after trimming never starts a turn: no       *)
(* collaborator is called, the counter keeps its value and the loop        *)
(* prompts again.  A line that spells exit, quit or q in any letter case   *)
(* ends the loop without starting a turn.  Every other line adds exactly   *)
(* one to the counter, which never decreases.                              *)
(***************************************************************************)
upper_char(c) ==
    CASE c = "e" -> "E"
      [] c = "x" -> "X"
      [] c = "i" -> "I"
      [] c = "t" -> "T"
      [] c = "q" -> "Q"
      [] c = "u" -> "U"
      [] OTHER -> c

\* The spellings of word w in every mix of letter cases.
AnyCase(w) ==
    {s \in [1..Len(w) -> {w[i] : i \in 1..Len(w)}
                           \cup {upper_char(w[i]) : i \in 1..Len(w)}] :
        \A i \in 1..Len(w) : s[i] \in {w[i], upper_char(w[i])}}

ReservedInAnyCase == UNION {AnyCase(w) : w \in ReservedWords}

\* input() returned a line in this step: query is the trimmed line.
LineRead ==
    /\ pc = "prompt"
    /\ pc' \in {"prompt", "done", "embed_get"}
    /\ stdout' # <<"interrupted">>

NoTurnStarted ==
    /\ conversation_count' = conversation_count
    /\ turn'.status = "Idle"
    /\ turn'.called = {}
    /\ \E idle \in IdleTimes : conn' = Elapse(conn, idle)

C14_InputDispatch ==
    /\ [][LineRead =>
            /\ query' = <<>> => pc' = "prompt" /\ NoTurnStarted
            /\ query' \in ReservedInAnyCase =>
                  /\ pc' = "done"
                  /\ stdout' = <<"farewell">>
                  /\ NoTurnStarted
            /\ query' \notin ReservedInAnyCase \cup {<<>>} =>
                  /\ conversation_count' = conversation_count + 1
                  /\ pc' = "embed_get"
                  /\ turn'.status = "Running"
                  /\ turn'.called = {}]_vars
    /\ [][conversation_count' # conversation_count => LineRead]_vars
    /\ [][conversation_count' >= conversation_count]_vars
    /\ [](pc = "done" => ~ENABLED Next)

\* After one turn the user typed Exit, capital first: the loop has ended.
C14_Witness ==
    /\ pc = "done"
    /\ query = <<"E", "x", "i", "t">>
    /\ stdout = <<"farewell">>
    /\ conversation_count = 1

(***************************************************************************)
(* C15.  Once the graph store has signalled an authentication failure or   *)
(* that it is unavailable, at startup or during a turn, the graph          *)
(* subsystem is disabled for the rest of the session: no query is sent to  *)
(* the graph store in that turn or in any later one.                       *)
(***************************************************************************)
\* This step opens a session on the driver or runs a query in it.
GraphStoreCalled ==
    \/ pc = "main_check" /\ "graph" \in turn'.called
    \/ pc = "graph_run" /\ Len(log') = Len(log) + 1

C15_FailureDisablesGraph == [][graph_failed => ~GraphStoreCalled]_vars

\* The half of it that is about a failure at startup.
StartupFailureDisablesGraph == [][~USE_NEO4J => ~GraphStoreCalled]_vars

(***************************************************************************)
(* C16.  embed_text() never returns a vector whose length differs from the *)
(* fixed dimension, 1536: a cached entry of another length is reported as  *)
(* a corruption error and does not reach the query of the vector index.    *)
(***************************************************************************)
C16_FixedDimension ==
    /\ vec # NoVec => vec.dim = DIMENSIONS
    /\ pc = "index_query" => vec.dim = DIMENSIONS
    /\ last_embed # NoEmbed => last_embed.vec.dim = DIMENSIONS

(***************************************************************************)
(* C17.  The embedding and the answer namespace derive their keys from the *)
(* same SHA-256 digest with distinct prefixes, so an embedding entry and   *)
(* an answer entry never share a key, whatever the two texts: saving an    *)
(* answer leaves the embedding lookup of every text as it was, and saving  *)
(* an embedding leaves every answer lookup as it was.                      *)
(***************************************************************************)
\* This step is a call of saver op.
Saves(op) == Len(log') = Len(log) + 1 /\ log'[Len(log')].op = op

C17_NamespacesDisjoint ==
    /\ [](\A t1, t2 \in Texts : get_hash(t1) # answer_key(t2))
    /\ [][Saves("save_cached_answer") =>
            \A t \in Texts :
              get_cached_embeddings(conn', t) = get_cached_embeddings(conn, t)]_vars
    /\ [][Saves("save_embeddings") =>
            \A t \in Texts :
              get_cached_answer(conn', t) = get_cached_answer(conn, t)]_vars

\* One text has a live entry in both namespaces, the answer written last.
C17_Witness ==
    /\ pc = "cache"
    /\ log # <<>>
    /\ log[Len(log)].op = "save_cached_answer"
    /\ get_cached_answer(conn, log[Len(log)].text) \in ChatContents
    /\ get_cached_embeddings(conn, log[Len(log)].text) \in Vectors

(***************************************************************************)
(* C18.  Within one turn the stages run strictly in the order embedding,   *)
(* vector query, graph expansion, context assembly, generation; each runs  *)
(* at most once per turn and none starts before its predecessor has        *)
(* finished.  Every started turn ends in exactly one of Answered, Degraded *)
(* or Failed before the next prompt is read (or the session ends).         *)
(***************************************************************************)
\* The place of a control point in the order of the stages.
StageRank(p) ==
    CASE p \in RetrievalPcs \ {"index_query"} -> 1
      [] p = "index_query" -> 2
      [] p \in {"main_check", "graph_run"} -> 3
      [] p = "build_prompt" -> 4
      [] p \in GenerationPcs -> 5
      [] p = "print_answer" -> 6
      [] OTHER -> 0

EndStatuses == {"Answered", "Degraded", "Failed"}

\* Each stage works on what its predecessors have left.
StageInputs ==
    /\ pc = "index_query" => truthy(vec) /\ Last(log).ev = "return"
    /\ "graph" \in turn.called => "index" \in turn.called /\ matches # <<>>
    /\ pc = "build_prompt" => "index" \in turn.called /\ matches # <<>>
    /\ pc \in GenerationPcs \cup {"print_answer"} =>
          /\ prompt # NoPrompt
          /\ prompt.query = query
          /\ Len(prompt.vec) > 0
    /\ "chat" \in turn.called => prompt # NoPrompt
    /\ pc = "print_answer" => "chat" \in turn.called

C18_StagesInOrder ==
    /\ [][(StageRank(pc) > 0 /\ StageRank(pc') > 0) =>
            StageRank(pc') >= StageRank(pc)]_vars
    /\ [][(pc = "prompt" /\ StageRank(pc') > 0) => StageRank(pc') = 1]_vars
    /\ [][(pc \in {"index_query", "build_prompt", "print_answer"}) =>
            pc' # pc]_vars
    /\ []StageInputs
    /\ [](StageRank(pc) > 0 => turn.status = "Running")
    /\ [](turn.status = "Running" => StageRank(pc) > 0 \/ pc = "except")
    /\ [][(turn.status = "Running" /\ pc' = "prompt") =>
            turn'.status \in EndStatuses]_vars
    /\ [](pc = "prompt" => turn.status \in EndStatuses \cup {"Idle"})
    /\ (turn.status = "Running" ~>
          \/ pc = "prompt" /\ turn.status \in EndStatuses
          \/ pc = "done")

\* A turn went through all five stages and was answered.
C18_Witness ==
    /\ pc = "prompt"
    /\ turn.status = "Answered"
    /\ turn.called = {"embed", "index", "graph", "chat"}
    /\ graph_facts # <<>>
    /\ prompt.sections = <<"vec", "graph">>

(***************************************************************************)
(* C19.  An interrupt that arrives at any point of a turn, a pacing or     *)
(* backoff sleep and a call in flight inside embed_text(),                 *)
(* pinecone_query(), fetch_graph_context() or call_chat() included, is     *)
(* swallowed by no handler of a stage: it ends the session with the        *)
(* farewell message, no collaborator is called after it, and the cache     *)
(* holds for each text a complete entry or none.                           *)
(***************************************************************************)
\* Every key holds nothing, or the whole pickle of a vector or an answer.
CacheEntriesComplete ==
    \A t \in Texts :
        /\ \/ conn[get_hash(t)] = NoEntry
           \/ /\ conn[get_hash(t)].ttl > 0
              /\ \E v \in Vectors : conn[get_hash(t)].data = pickle_dumps(v)
        /\ \/ conn[answer_key(t)] = NoEntry
           \/ /\ conn[answer_key(t)].ttl > 0
              /\ \E a \in ChatContents :
                    conn[answer_key(t)].data = pickle_dumps(a)

\* The session ends in the middle of a turn: only an interrupt does that.
EndsInTurn == turn.status = "Running" /\ pc' = "done"

C19_InterruptEndsSession ==
    /\ [](turn.status = "Running" => ENABLED main_interrupt)
    /\ [][EndsInTurn => stdout' = <<"interrupted">>]_vars
    /\ [](pc = "done" => ~ENABLED Next)
    /\ []CacheEntriesComplete

\* The same, leaving out the time the handler of line 289 is running.
InterruptOutsideHandlerEndsSession ==
    /\ [](turn.status = "Running" => ENABLED main_interrupt)
    /\ [][(EndsInTurn /\ pc # "except") => stdout' = <<"interrupted">>]_vars
    /\ [](pc = "done" => ~ENABLED Next)
    /\ []CacheEntriesComplete

(***************************************************************************)
(* C20.  When every attempt of call_chat() fails, the kind of the last     *)
(* attempt's failure alone decides the sentinel: the rate-limit apology,   *)
(* after a last backoff of retry_count * 10 seconds that no retry follows, *)
(* if the last attempt was rate-limited; the generic apology if it failed  *)
(* otherwise.  A failure other than a rate limit on an earlier attempt is  *)
(* retried after the pacing delay alone, without backoff.                  *)
(***************************************************************************)
\* The positions of the provider calls in the log of call_chat().
CallsAt == {i \in 1..Len(log) : log[i].ev = "call"}

LastCallAt == CHOOSE i \in CallsAt : \A j \in CallsAt : j <= i

\* What the log holds after position i.
LogAfter(i) == SubSeq(log, i + 1, Len(log))

C20_LastFailureDecidesSentinel ==
    /\ (pc = "print_answer" /\ CountOk(log) = 0) =>
          /\ Cardinality(CallsAt) = retry_count
          /\ IF log[LastCallAt].out = "429"
             THEN /\ answer = SORRY_RATE_LIMIT
                  /\ LogAfter(LastCallAt) =
                       <<Event("sleep", Seconds(retry_count * 10), ""),
                         Event("return", 0, "")>>
             ELSE /\ answer = SORRY_ERROR
                  /\ LogAfter(LastCallAt) = <<Event("return", 0, "")>>
    /\ pc \in GenerationPcs \cup {"print_answer"} =>
          \A i \in CallsAt :
            (/\ log[i].out \notin {"", "429"}
             /\ i < Len(log)
             /\ Cardinality({j \in CallsAt : j <= i}) < retry_count) =>
               /\ log[i + 1] = Pacing
               /\ i + 1 < Len(log) => log[i + 2].ev = "call"

\* The first attempt failed with an error that is no rate limit, the last
\* one was rate-limited: the rate-limit apology is returned.
C20_Witness ==
    /\ pc = "print_answer"
    /\ CountOk(log) = 0
    /\ answer = SORRY_RATE_LIMIT
    /\ \E i \in CallsAt : log[i].out = "error" /\ i < LastCallAt
    /\ log[LastCallAt].out = "429"

====
